---- MODULE Spec2Model ----
(***************************************************************************)
(* A model of the logo generator: the batch orchestrator (processBatch     *)
(* over p-limit), the retry wrapper (RetryStrategy.execute), the cache     *)
(* store (CacheManager), the generation path (LogoGenerator.generate) and  *)
(* the cache key derivation (createPromptHash).  Each component has its    *)
(* own specification over the shared variables; the variables of the other *)
(* components stay at their initial values.                                *)
(***************************************************************************)
EXTENDS Integers, Sequences, FiniteSets, TLC

VARIABLES
  \* ---- processBatch (batch command) ----
  batch,        \* the BatchRequest: requests, concurrency, outputDir, iteration
  results,      \* the BatchResult under construction: successful, failed, stats
  limit,        \* the p-limit instance: concurrency, activeCount, queue
  tasks,        \* per request: where its task function stands, and its logoResult
  completed,    \* the `completed` counter of processBatch
  ticks,        \* p-limit's pending "try to start" microtasks (one per enqueue)
  manifest,     \* <outputDir>/iterations.json: absent, or its content
  created,      \* the calls of createIterationManifest so far, in call order:
                \* the file each found, the record it built, whether it threw
  bpc,          \* where processBatch itself stands
  \* ---- RetryStrategy.execute ----
  maxRetries,   \* the maxRetries argument
  attempt,      \* the loop variable
  lastError,    \* the lastError local
  rpc,          \* where execute stands: idle, loop, op, sleep, returned, thrown
  outcome,      \* what execute returned (a value) or threw (an error)
  delay,        \* the delay of the backoff sleep in progress
  effects,      \* what execute did: invocations of op, warnings, sleeps,
                \* failures of op, and whether all of them were retryable
  \* ---- CacheManager ----
  clock,        \* Date.now()
  ttl,          \* this.ttl
  maxSize,      \* this.maxSize
  memoryCache,  \* this.memoryCache: key -> CachedLogo
  files,        \* <cacheDir>/<key>.json: key -> file
  cacheDirExists, \* whether cacheDir exists
  last,         \* the call of get or set just made and what it returned
  lastSet,      \* per key, the value and time of the most recent set
  \* ---- LogoGenerator.generate ----
  gpc,          \* where generate stands: idle, execute
  request,      \* the request of the latest call
  options,      \* the options of the latest call
  generated,    \* the latest call: how it stands, its prompt, API parameters,
                \* error, and the metadata of its result
  served,       \* per request, the time generate last returned a result for it
  \* ---- CacheManager.createPromptHash ----
  hashArgs,     \* the arguments of the call: company, prompt, style, colors
  colorsArray,  \* the caller's colors array, as the call leaves it
  hashKey,      \* the key returned
  hpc,          \* where the call stands: idle, call, done
  \* ---- the generate command ----
  command,      \* a run of the command's action: its options, the results of
                \* generate, the downloads, what it reported, its exit status
  \* ---- parseCSV ----
  csv,          \* the batch file: its cells, its text, and the requests parsed
  \* ---- RetryStrategy.calculateBackoffDelay ----
  backoff       \* a call: the attempt, the jitter drawn, the delay returned

batchVars == <<batch, results, limit, tasks, completed, ticks, manifest, created, bpc>>

retryVars == <<maxRetries, attempt, lastError, rpc, outcome, delay, effects>>

cacheVars == <<clock, ttl, maxSize, memoryCache, files, cacheDirExists, last, lastSet>>

generateVars == <<gpc, request, options, generated, served>>

hashVars == <<hashArgs, colorsArray, hashKey, hpc>>

\* The components that run only on their own.
standaloneVars == <<command, csv, backoff>>

\* What each component leaves alone.
nonBatchVars == <<retryVars, cacheVars, generateVars, hashVars, standaloneVars>>
nonRetryVars == <<batchVars, cacheVars, generateVars, hashVars, standaloneVars>>
nonCacheVars == <<batchVars, retryVars, generateVars, hashVars, standaloneVars>>
nonGenerateVars == <<batchVars, cacheVars, hashVars, standaloneVars>>
nonHashVars == <<batchVars, retryVars, cacheVars, generateVars, standaloneVars>>

vars == <<batch, results, limit, tasks, completed, ticks, manifest, created, bpc,
          maxRetries, attempt, lastError, rpc, outcome, delay, effects,
          clock, ttl, maxSize, memoryCache, files, cacheDirExists, last, lastSet,
          gpc, request, options, generated, served,
          hashArgs, colorsArray, hashKey, hpc,
          command, csv, backoff>>

\* ------------------------------------------------------------------------
\* Bounds of the model
\* ------------------------------------------------------------------------
MaxRequests == 4
MaxConcurrency == 2
MaxAttempts == 3
MaxTtl == 2
MaxClock == 3
MaxBytes == 3
MaxColors == 3
MaxCalls == 3
MaxVariations == 2
MaxRows == 2
MaxBackoffAttempt == 8

\* ------------------------------------------------------------------------
\* JavaScript values
\* ------------------------------------------------------------------------
\* `undefined`: an optional field or argument that was not supplied.
Undefined == -1

\* x || d for a number x: the default d replaces undefined and 0.
OrDefault(x, d) == IF x = Undefined \/ x = 0 THEN d ELSE x

\* if (x) for an optional number or an optional non-empty string id.
Truthy(x) == x # Undefined /\ x # 0

RECURSIVE SumCost(_)
SumCost(s) == IF s = <<>> THEN 0 ELSE Head(s).cost + SumCost(Tail(s))

\* ------------------------------------------------------------------------
\* Components that run only on their own, while they are not in use
\* ------------------------------------------------------------------------
\* The generate command has not been run.
NoCommand ==
  [pc |-> "idle", generateOk |-> FALSE, download |-> FALSE,
   iteration |-> Undefined, io |-> <<>>, writeOk |-> FALSE,
   results |-> <<>>, filepaths |-> <<>>, logged |-> <<>>,
   reported |-> FALSE, exit |-> Undefined]

CommandIdle == command = NoCommand

\* parseCSV has not been given a file.
NoCsv ==
  [pc |-> "idle", headers |-> <<>>, rows |-> <<>>, content |-> <<>>,
   requests |-> <<>>]

CsvIdle == csv = NoCsv

\* calculateBackoffDelay has not been called.
NoBackoff == [pc |-> "idle", attempt |-> 0, jitter |-> 0, delay |-> 0]

BackoffIdle == backoff = NoBackoff

StandaloneIdle == CommandIdle /\ CsvIdle /\ BackoffIdle

\* ------------------------------------------------------------------------
\* RetryStrategy
\* ------------------------------------------------------------------------
\* An error object.  id tells the objects apart: the error thrown by the n-th
\* invocation of the operation has id n, and 0 is no invocation's error.
\* rl: it is an instance of RateLimitError.  message: its words, or <<>> when
\* the thrown value has no message.  kind is the class the retry contract
\* assigns to it (ratelimit, network, other); execute never reads it.
Errors ==
  { [rl |-> TRUE,  message |-> <<"slow", "down">>,                    kind |-> "ratelimit"],
    [rl |-> FALSE, message |-> <<"Rate", "limit", "reached">>,        kind |-> "ratelimit"],
    [rl |-> FALSE, message |-> <<"429", "Too", "Many", "Requests">>,  kind |-> "ratelimit"],
    [rl |-> FALSE, message |-> <<"Quota", "exceeded">>,               kind |-> "ratelimit"],
    [rl |-> FALSE, message |-> <<"Network", "error">>,                kind |-> "network"],
    [rl |-> FALSE, message |-> <<"request", "Timeout">>,              kind |-> "network"],
    [rl |-> FALSE, message |-> <<"ECONNRESET">>,                      kind |-> "network"],
    [rl |-> FALSE, message |-> <<"socket", "hang", "up">>,            kind |-> "network"],
    [rl |-> FALSE, message |-> <<"Connection", "refused">>,           kind |-> "network"],
    [rl |-> FALSE, message |-> <<"Invalid", "API", "key">>,           kind |-> "other"],
    [rl |-> FALSE, message |-> <<"limit", "rate">>,                   kind |-> "other"],
    [rl |-> FALSE, message |-> <<>>,                                  kind |-> "other"] }

NoError == [id |-> 0, rl |-> FALSE, message |-> <<>>, kind |-> "none"]

NoOutcome == [value |-> 0, error |-> NoError]

\* The n-th invocation throws e.
Thrown(e, n) == [id |-> n, rl |-> e.rl, message |-> e.message, kind |-> e.kind]

\* String.prototype.toLowerCase, word by word.
toLowerCase(w) ==
  CASE w = "Rate" -> "rate"
    [] w = "Too" -> "too"
    [] w = "Many" -> "many"
    [] w = "Requests" -> "requests"
    [] w = "Quota" -> "quota"
    [] w = "Network" -> "network"
    [] w = "Timeout" -> "timeout"
    [] w = "ECONNRESET" -> "econnreset"
    [] w = "Connection" -> "connection"
    [] w = "Invalid" -> "invalid"
    [] w = "API" -> "api"
    [] w = "Company" -> "company"
    [] w = "Description" -> "description"
    [] OTHER -> w

LowerCase(msg) == [k \in 1..Len(msg) |-> toLowerCase(msg[k])]

\* String.prototype.includes on word sequences: needle occurs contiguously.
includes(msg, needle) ==
  \E k \in 0..(Len(msg) - Len(needle)) :
    \A j \in 1..Len(needle) : msg[k + j] = needle[j]

\* A classifier that takes every error for a rate limit.
isRateLimitErrorAlways(error) == TRUE

isRateLimitError(error) ==
  \/ error.rl
  \/ LET errorMessage == LowerCase(error.message) IN
       \/ includes(errorMessage, <<"rate", "limit">>)
       \/ includes(errorMessage, <<"too", "many", "requests">>)
       \/ includes(errorMessage, <<"quota", "exceeded">>)

\* A classifier that retries no network error.
isRetryableErrorNever(error) == FALSE

isRetryableError(error) ==
  LET errorMessage == LowerCase(error.message) IN
    \/ includes(errorMessage, <<"network">>)
    \/ includes(errorMessage, <<"timeout">>)
    \/ includes(errorMessage, <<"connection">>)
    \/ includes(errorMessage, <<"econnreset">>)
    \/ includes(errorMessage, <<"socket", "hang", "up">>)

Min(a, b) == IF a <= b THEN a ELSE b

\* Math.random() * 1000, to the millisecond: some values of [0, 1000).
Jitters == {0, 500, 999}

baseDelay == 1000
maxDelay == 30000

\* Math.random() * 1000, to the millisecond: every value of [0, 1000).
jitterSpan == 1000
JitterRange == 0..(jitterSpan - 1)

\* A backoff without the cap.
calculateBackoffDelayUncapped(att, jitter) ==
  LET exponentialDelay == baseDelay * 2 ^ (att - 1) IN
    exponentialDelay + jitter

calculateBackoffDelay(att, jitter) ==
  LET exponentialDelay == baseDelay * 2 ^ (att - 1) IN
    Min(exponentialDelay + jitter, maxDelay)

\* calculateBackoffDelay is about to be called for an attempt.
BackoffInit ==
  \E a \in 1..MaxBackoffAttempt :
    backoff = [pc |-> "call", attempt |-> a, jitter |-> 0, delay |-> 0]

\* The call: the jitter is drawn and the delay returned.
CalculateBackoffDelay ==
  /\ backoff.pc = "call"
  /\ \E jitter \in JitterRange :
       backoff' = [backoff EXCEPT !.pc = "done", !.jitter = jitter,
                     !.delay = calculateBackoffDelay(backoff.attempt, jitter)]
  /\ UNCHANGED <<batchVars, retryVars, cacheVars, generateVars, hashVars,
                 command, csv>>

BackoffNext == CalculateBackoffDelay

NoEffects == [invocations |-> 0, warnings |-> 0, sleeps |-> 0,
              failures |-> 0, allRetryable |-> TRUE]

\* execute has not been called.
RetryIdle ==
  /\ maxRetries = 0
  /\ attempt = 0
  /\ lastError = NoError
  /\ rpc = "idle"
  /\ outcome = NoOutcome
  /\ delay = 0
  /\ effects = NoEffects

\* execute(operation, maxRetries) has been called and stands at the loop test.
RetryInit ==
  /\ maxRetries \in 0..MaxAttempts
  /\ attempt = 1
  /\ lastError = NoError
  /\ rpc = "loop"
  /\ outcome = NoOutcome
  /\ delay = 0
  /\ effects = NoEffects

\* attempt <= maxRetries: the loop body calls the operation.
Invoke ==
  /\ rpc = "loop"
  /\ attempt <= maxRetries
  /\ rpc' = "op"
  /\ effects' = [effects EXCEPT !.invocations = @ + 1]
  /\ UNCHANGED <<maxRetries, attempt, lastError, outcome, delay>>
  /\ UNCHANGED nonRetryVars

\* The loop ends without a return: a throw that raises a new error.
ExhaustedWrapped ==
  /\ rpc = "loop"
  /\ attempt > maxRetries
  /\ rpc' = "thrown"
  /\ outcome' = [value |-> 0, error |-> [lastError EXCEPT !.id = 0]]
  /\ UNCHANGED <<maxRetries, attempt, lastError, delay, effects>>
  /\ UNCHANGED nonRetryVars

\* The loop ends without a return: throw lastError.
Exhausted ==
  /\ rpc = "loop"
  /\ attempt > maxRetries
  /\ rpc' = "thrown"
  /\ outcome' = [value |-> 0, error |-> lastError]
  /\ UNCHANGED <<maxRetries, attempt, lastError, delay, effects>>
  /\ UNCHANGED nonRetryVars

\* The operation resolves: return await operation().  The value of the n-th
\* invocation is n.
OpResolve ==
  /\ rpc = "op"
  /\ rpc' = "returned"
  /\ outcome' = [value |-> effects.invocations, error |-> NoError]
  /\ UNCHANGED <<maxRetries, attempt, lastError, delay, effects>>
  /\ UNCHANGED nonRetryVars

\* console.warn, then the call of sleep(delay).
WarnAndSleep(jitter) ==
  /\ delay' = calculateBackoffDelay(attempt, jitter)
  /\ rpc' = "sleep"
  /\ UNCHANGED outcome

\* The operation rejects with e: the catch block.
OpReject(e) ==
  /\ rpc = "op"
  /\ LET error == Thrown(e, effects.invocations) IN
       /\ lastError' = error
       /\ \E jitter \in Jitters :
            IF isRateLimitError(error)
              THEN /\ WarnAndSleep(jitter)
                   /\ effects' = [effects EXCEPT !.warnings = @ + 1, !.sleeps = @ + 1,
                                     !.failures = @ + 1,
                                     !.allRetryable = @ /\ e.kind # "other"]
              ELSE IF isRetryableError(error) /\ attempt < maxRetries
                THEN /\ WarnAndSleep(jitter)
                     /\ effects' = [effects EXCEPT !.warnings = @ + 1, !.sleeps = @ + 1,
                                       !.failures = @ + 1,
                                       !.allRetryable = @ /\ e.kind # "other"]
                ELSE /\ rpc' = "thrown"
                     /\ outcome' = [value |-> 0, error |-> error]
                     /\ delay' = delay
                     /\ effects' = [effects EXCEPT !.failures = @ + 1,
                                       !.allRetryable = @ /\ e.kind # "other"]
  /\ UNCHANGED <<maxRetries, attempt>>
  /\ UNCHANGED nonRetryVars

\* The sleep ends: continue with the next attempt.
Wake ==
  /\ rpc = "sleep"
  /\ attempt' = attempt + 1
  /\ rpc' = "loop"
  /\ delay' = 0
  /\ UNCHANGED <<maxRetries, lastError, outcome, effects>>
  /\ UNCHANGED nonRetryVars

RetryNext ==
  \/ Invoke
  \/ Exhausted
  \/ OpResolve
  \/ \E e \in Errors : OpReject(e)
  \/ Wake

\* ------------------------------------------------------------------------
\* CacheManager
\* ------------------------------------------------------------------------
\* Two cache keys: a key and another key.
Keys == {1, 2}

\* The results that are cached: val stands for the fields of the LogoResult.
Vals == {1, 2}

\* null, and Map.get's undefined: no entry.
Null == [val |-> 0, expiresAt |-> 0, hit |-> FALSE]

NoFile == [state |-> "none", entry |-> Null, size |-> 0, mtime |-> 0]

\* A file whose content does not parse as JSON.
CorruptFile(mtime) == [state |-> "corrupt", entry |-> Null, size |-> 1, mtime |-> mtime]

\* JSON.stringify(cached).length: the bytes of the entry file.
FileSize(cached) == cached.val + 1

\* An entry that never expires.
isExpiredNever(cached, now) == FALSE

isExpired(cached, now) == now > cached.expiresAt

\* An entry stamped with the time of the write, without the ttl.
MakeCachedNoTtl(result, now, t) == [val |-> result, expiresAt |-> now, hit |-> FALSE]

\* const cached = { ...result, expiresAt: Date.now() + this.ttl, hit: false }
MakeCached(result, now, t) == [val |-> result, expiresAt |-> now + t, hit |-> FALSE]

\* A call that returned v (a promise that resolved with v), and one that
\* threw (a promise that rejected).
Resolved(v) == [threw |-> FALSE, value |-> v]

Rejected(v) == [threw |-> TRUE, value |-> v]

\* getFromFile: the parsed content of the key's file; null when the file is
\* absent, and null (after a warning, in the catch block) when exists, the
\* read or JSON.parse throws.
getFromFile(fs, promptHash, readOk) ==
  IF ~readOk \/ fs[promptHash].state = "corrupt" THEN Resolved(Null)
  ELSE IF fs[promptHash].state = "ok" THEN Resolved(fs[promptHash].entry)
  ELSE Resolved(Null)

\* saveToFile without its catch block: a failing write rejects.
saveToFileUncaught(fs, promptHash, cached, now, writeOk) ==
  IF writeOk
    THEN Resolved([fs EXCEPT ![promptHash] =
                     [state |-> "ok", entry |-> cached, size |-> FileSize(cached),
                      mtime |-> now]])
    ELSE Rejected(fs)

\* saveToFile: ensureDir and write the file; a failure is only warned about.
saveToFile(fs, promptHash, cached, now, writeOk) ==
  IF writeOk
    THEN Resolved([fs EXCEPT ![promptHash] =
                     [state |-> "ok", entry |-> cached, size |-> FileSize(cached),
                      mtime |-> now]])
    ELSE Resolved(fs)

RECURSIVE TotalSize(_, _)
TotalSize(fs, ks) ==
  IF ks = {} THEN 0
  ELSE LET k == CHOOSE x \in ks : TRUE IN fs[k].size + TotalSize(fs, ks \ {k})

Present(fs) == {k \in Keys : fs[k].state # "none"}

\* The oldest file: least mtime, and among equals the first of the listing.
Oldest(fs) ==
  CHOOSE k \in Present(fs) :
    \A j \in Present(fs) :
      fs[k].mtime < fs[j].mtime \/ (fs[k].mtime = fs[j].mtime /\ k <= j)

\* cleanupBySize that stops as soon as the total is back under maxSize.
RECURSIVE cleanupBySizeNoHeadroom(_, _)
cleanupBySizeNoHeadroom(fs, max) ==
  IF Present(fs) = {} \/ TotalSize(fs, Present(fs)) <= max
    THEN fs
    ELSE cleanupBySizeNoHeadroom([fs EXCEPT ![Oldest(fs)] = NoFile], max)

\* cleanupBySize: remove files, oldest first, until the total is at most 80%
\* of maxSize.
RECURSIVE cleanupBySize(_, _)
cleanupBySize(fs, max) ==
  IF Present(fs) = {} \/ 5 * TotalSize(fs, Present(fs)) <= 4 * max
    THEN fs
    ELSE cleanupBySize([fs EXCEPT ![Oldest(fs)] = NoFile], max)

\* What goes wrong during a cleanup pass: nothing ("none"); the listing or a
\* stat of the scan throws ("scan"); reading the file of `key` throws
\* ("read"); the listing, a stat or the first remove of cleanupBySize throws
\* ("size").
NoFailure == [fail |-> "none", key |-> 0]

PassFailures ==
  { NoFailure, [fail |-> "scan", key |-> 0], [fail |-> "size", key |-> 0] }
  \cup { [fail |-> "read", key |-> k] : k \in Keys }

\* The files the scan of cleanup marks for deletion: those whose entry has
\* expired and those whose read or parse threw.
expiredFiles(fs, now, io) ==
  {k \in Present(fs) :
     \/ fs[k].state = "corrupt"
     \/ (io.fail = "read" /\ io.key = k)
     \/ isExpired(fs[k].entry, now)}

\* The operation that io makes throw is one the pass performs.
Occurs(io, fs, dirExists, now, max) ==
  CASE io.fail = "none" -> TRUE
    [] io.fail = "scan" -> dirExists
    [] io.fail = "read" -> dirExists /\ fs[io.key].state # "none"
    [] io.fail = "size" -> dirExists /\ TotalSize(fs, Present(fs)) > max

\* What a pass leaves: the in-memory map, the files, and how the pass ended:
\* "nodir" (no cache directory: return), "done", or "failed" (catch block).
Pass(mem, fs, status) == [memoryCache |-> mem, files |-> fs, status |-> status]

\* cleanup
cleanup(mem, fs, dirExists, now, max, io) ==
  IF ~dirExists THEN Resolved(Pass(mem, fs, "nodir"))
  ELSE IF io.fail = "scan" THEN Resolved(Pass(mem, fs, "failed"))
  ELSE
    LET totalSize == TotalSize(fs, Present(fs))
        expired == expiredFiles(fs, now, io)
        kept == [k \in Keys |-> IF k \in expired THEN NoFile ELSE fs[k]]
        purged == [k \in Keys |->
                     IF mem[k] # Null /\ isExpired(mem[k], now) THEN Null ELSE mem[k]]
    IN IF totalSize > max
         THEN IF io.fail = "size"
                THEN Resolved(Pass(mem, kept, "failed"))
                ELSE Resolved(Pass(purged, cleanupBySize(kept, max), "done"))
         ELSE Resolved(Pass(purged, kept, "done"))

NoFiles == [k \in Keys |-> NoFile]

\* The call just made: the operation and its key; whether it threw; for get,
\* the result, the layer it came from and what went wrong reading the file;
\* for set, whether the file was written, how the cleanup pass went ("skipped"
\* when none was due), what went wrong in it, and the files the pass started
\* from.
NoCall == [op |-> "none", key |-> 0, threw |-> FALSE, result |-> Null, source |-> "none",
           wrote |-> FALSE, pass |-> "skipped", io |-> NoFailure, before |-> NoFiles]

NoSet == [val |-> 0, at |-> 0]

\* The cache is not in use.
CacheIdle ==
  /\ clock = 0
  /\ ttl = 0
  /\ maxSize = 0
  /\ memoryCache = [k \in Keys |-> Null]
  /\ files = [k \in Keys |-> NoFile]
  /\ cacheDirExists = FALSE
  /\ last = NoCall
  /\ lastSet = [k \in Keys |-> NoSet]

\* The file an earlier run of the program, with the same ttl, can have left
\* for the first key: none, one that no longer parses, an entry that has
\* expired, or an entry written just before this process started at time 1.
LeftBehind(t) ==
  { NoFile,
    CorruptFile(0),
    [state |-> "ok", entry |-> [val |-> 1, expiresAt |-> 0, hit |-> FALSE],
     size |-> 2, mtime |-> 0 - t],
    [state |-> "ok", entry |-> [val |-> 1, expiresAt |-> t + 1, hit |-> FALSE],
     size |-> 2, mtime |-> 1] }

\* new CacheManager(cacheDir, ttlSeconds, maxSizeMB)
CacheInit ==
  /\ clock = 1
  /\ ttl \in {MaxTtl - 1, MaxTtl}
  /\ maxSize = MaxBytes
  /\ memoryCache = [k \in Keys |-> Null]
  /\ files \in {[k \in Keys |-> IF k = 1 THEN f ELSE NoFile] : f \in LeftBehind(ttl)}
  /\ cacheDirExists \in {b \in BOOLEAN : Present(files) # {} => b}
  /\ last = NoCall
  /\ lastSet = [k \in Keys |-> NoSet]

\* What went wrong in getFromFile: the read threw, or JSON.parse did.
ReadFailure(fs, promptHash, readOk) ==
  IF ~readOk THEN [fail |-> "read", key |-> promptHash]
  ELSE IF fs[promptHash].state = "corrupt" THEN [fail |-> "parse", key |-> promptHash]
  ELSE NoFailure

\* get(promptHash)
Get(promptHash, readOk) ==
  /\ LET memCached == memoryCache[promptHash]
         fromFile == getFromFile(files, promptHash, readOk)
         fileCached == fromFile.value
         call == [NoCall EXCEPT !.op = "get", !.key = promptHash]
         fileCall == [call EXCEPT !.io = ReadFailure(files, promptHash, readOk)]
     IN IF memCached # Null /\ ~isExpired(memCached, clock)
          THEN /\ last' = [call EXCEPT !.result = [memCached EXCEPT !.hit = TRUE],
                                       !.source = "memory"]
               /\ UNCHANGED memoryCache
          ELSE IF fromFile.threw
            THEN /\ last' = [fileCall EXCEPT !.threw = TRUE]
                 /\ UNCHANGED memoryCache
          ELSE IF fileCached # Null /\ ~isExpired(fileCached, clock)
            THEN /\ memoryCache' = [memoryCache EXCEPT ![promptHash] = fileCached]
                 /\ last' = [fileCall EXCEPT !.result = [fileCached EXCEPT !.hit = TRUE],
                                           !.source = "file"]
            ELSE /\ last' = fileCall
                 /\ UNCHANGED memoryCache
  /\ UNCHANGED <<clock, ttl, maxSize, files, cacheDirExists, lastSet>>
  /\ UNCHANGED nonCacheVars

\* set(promptHash, result): the entry goes to the map and to the file; then,
\* one time in ten (doCleanup), a cleanup pass.
Set(promptHash, result, writeOk, doCleanup, io) ==
  /\ LET cached == MakeCached(result, clock, ttl)
         mem == [memoryCache EXCEPT ![promptHash] = cached]
         saved == saveToFile(files, promptHash, cached, clock, writeOk)
         fs == saved.value
         dir == cacheDirExists \/ writeOk
         call == [NoCall EXCEPT !.op = "set", !.key = promptHash, !.wrote = writeOk]
     IN /\ cacheDirExists' = dir
        /\ IF saved.threw
             THEN /\ memoryCache' = mem
                  /\ files' = fs
                  /\ last' = [call EXCEPT !.threw = TRUE]
             ELSE IF doCleanup
               THEN \E swept \in {cleanup(mem, fs, dir, clock, maxSize, io)} :
                      /\ Occurs(io, fs, dir, clock, maxSize)
                      /\ memoryCache' = swept.value.memoryCache
                      /\ files' = swept.value.files
                      /\ last' = [call EXCEPT !.threw = swept.threw,
                                              !.pass = swept.value.status,
                                              !.io = io, !.before = fs]
               ELSE /\ memoryCache' = mem
                    /\ files' = fs
                    /\ last' = call
  /\ lastSet' = [lastSet EXCEPT ![promptHash] = [val |-> result, at |-> clock]]
  /\ UNCHANGED <<clock, ttl, maxSize>>
  /\ UNCHANGED nonCacheVars

\* Time passes between two calls; the caller has taken the last result.
Tick ==
  /\ clock < MaxClock
  /\ clock' = clock + 1
  /\ last' = NoCall
  /\ UNCHANGED <<ttl, maxSize, memoryCache, files, cacheDirExists, lastSet>>
  /\ UNCHANGED nonCacheVars

CacheNext ==
  \/ \E k \in Keys, readOk \in BOOLEAN : Get(k, readOk)
  \/ \E k \in Keys, v \in Vals, writeOk \in BOOLEAN :
       Set(k, v, writeOk, FALSE, NoFailure)
  \/ \E k \in Keys, v \in Vals, writeOk \in BOOLEAN, io \in PassFailures :
       Set(k, v, writeOk, TRUE, io)
  \/ Tick

\* ------------------------------------------------------------------------
\* CacheManager.createPromptHash
\* ------------------------------------------------------------------------
\* Strings are sequences of characters.  An optional argument is a record:
\* given tells whether it was supplied, val is its value.
NotGiven == [given |-> FALSE, val |-> <<>>]

Given(v) == [given |-> TRUE, val |-> v]

\* The UTF-16 code unit of a character.
Code(c) ==
  CASE c = "," -> 44
    [] c = ":" -> 58
    [] c = "a" -> 97
    [] c = "b" -> 98
    [] OTHER -> 99

\* a < b for strings: the comparison of Array.prototype.sort without a
\* comparator, code unit by code unit.
RECURSIVE StrLess(_, _)
StrLess(a, b) ==
  IF b = <<>> THEN FALSE
  ELSE IF a = <<>> THEN TRUE
  ELSE IF Code(Head(a)) # Code(Head(b)) THEN Code(Head(a)) < Code(Head(b))
  ELSE StrLess(Tail(a), Tail(b))

RECURSIVE Insert(_, _)
Insert(x, sorted) ==
  IF sorted = <<>> THEN <<x>>
  ELSE IF StrLess(x, Head(sorted)) THEN <<x>> \o sorted
  ELSE <<Head(sorted)>> \o Insert(x, Tail(sorted))

\* A sort that leaves the array as it is.
sortNothing(list) == list

\* Array.prototype.sort(): the array in ascending order.
RECURSIVE sort(_)
sort(list) == IF list = <<>> THEN <<>> ELSE Insert(Head(list), sort(Tail(list)))

\* Array.prototype.join(",")
RECURSIVE join(_)
join(list) ==
  IF list = <<>> THEN <<>>
  ELSE IF Len(list) = 1 THEN Head(list)
  ELSE Head(list) \o <<",">> \o join(Tail(list))

\* style || "default"
StyleOrDefault(style) ==
  IF style.given /\ style.val # <<>>
    THEN style.val
    ELSE <<"d", "e", "f", "a", "u", "l", "t">>

\* encodeHex(SHA-256(input)).slice(0, 16): the digest, taken as injective.
Digest(input) == <<"sha256", input>>

\* createPromptHash(company, prompt, style, colors): the key, and the colors
\* array as the in-place sort leaves it.
createPromptHash(company, prompt, style, colors) ==
  LET sorted == IF colors.given THEN Given(sort(colors.val)) ELSE NotGiven
      input == company \o <<":">> \o prompt \o <<":">> \o StyleOrDefault(style)
               \o <<":">> \o join(sorted.val)
  IN [key |-> Digest(input), colors |-> sorted]

CompanyNames == { <<"a">>, <<"a", ":">>, <<"b">> }

PromptTexts == { <<"b">>, <<":", "b">>, <<"a">> }

Styles == { NotGiven, Given(<<>>), Given(<<"m", "o", "d", "e", "r", "n">>) }

ColorNames == { <<"a">>, <<"b">>, <<"a", "b">> }

RECURSIVE Lists(_, _)
Lists(S, n) ==
  IF n = 0 THEN { <<>> }
  ELSE Lists(S, n - 1) \cup { <<x>> \o l : x \in S, l \in {m \in Lists(S, n - 1) : Len(m) = n - 1} }

ColorLists == { NotGiven } \cup { Given(l) : l \in Lists(ColorNames, MaxColors) }

NoArgs == [company |-> <<>>, prompt |-> <<>>, style |-> NotGiven, colors |-> NotGiven]

\* createPromptHash is not in use.
HashIdle ==
  /\ hashArgs = NoArgs
  /\ colorsArray = NotGiven
  /\ hashKey = <<>>
  /\ hpc = "idle"

\* A caller is about to call createPromptHash with its colors array.
HashInit ==
  /\ hashArgs \in [company : CompanyNames, prompt : PromptTexts,
                    style : Styles, colors : ColorLists]
  /\ colorsArray = hashArgs.colors
  /\ hashKey = <<>>
  /\ hpc = "call"

\* The call.
CreatePromptHash ==
  /\ hpc = "call"
  /\ LET r == createPromptHash(hashArgs.company, hashArgs.prompt, hashArgs.style, colorsArray) IN
       /\ hashKey' = r.key
       /\ colorsArray' = r.colors
  /\ hpc' = "done"
  /\ UNCHANGED hashArgs
  /\ UNCHANGED nonHashVars

HashNext == CreatePromptHash

\* ------------------------------------------------------------------------
\* Optional fields of LogoRequest and GenerationOptions
\* ------------------------------------------------------------------------
\* An optional string: given tells whether it was supplied.
Absent == [given |-> FALSE, val |-> ""]

Some(v) == [given |-> TRUE, val |-> v]

\* if (x) for an optional string: undefined and "" are falsy.
TruthyStr(x) == x.given /\ x.val # ""

\* a || b for optional strings.
Or(a, b) == IF TruthyStr(a) THEN a ELSE b

\* An optional array of strings; an array, even empty, is truthy.
NoList == [given |-> FALSE, val |-> <<>>]

\* a || b for optional arrays.
OrList(a, b) == IF a.given THEN a ELSE b

\* ------------------------------------------------------------------------
\* Prompt text.  A string is the sequence of the pieces it was built from:
\* the interpolated values and the literal text between them.
\* ------------------------------------------------------------------------
\* Array.prototype.join(sep) on pieces.
RECURSIVE joinWith(_, _)
joinWith(list, sep) ==
  IF list = <<>> THEN <<>>
  ELSE IF Len(list) = 1 THEN <<Head(list)>>
  ELSE <<Head(list), sep>> \o joinWith(Tail(list), sep)

\* The color clause both engines build: "X color scheme" (with `lead` before
\* it) for one color, "using X, Y and Z colors" for more.
colorDesc(colors, lead) ==
  IF Len(colors) = 1
    THEN <<lead, colors[1], " color scheme">>
    ELSE <<"using ">> \o joinWith(SubSeq(colors, 1, Len(colors) - 1), ", ")
         \o <<" and ", colors[Len(colors)], " colors">>

\* ------------------------------------------------------------------------
\* PromptEngine
\* ------------------------------------------------------------------------
\* this.templates.get(industry)?.base || "professional logo"
baseDescription(industry) ==
  IF ~TruthyStr(industry) THEN "professional logo"
  ELSE CASE industry.val = "technology" -> "minimalist tech logo with geometric elements"
         [] industry.val = "healthcare" -> "medical logo with caring symbolism"
         [] industry.val = "finance" -> "financial services logo conveying trust"
         [] industry.val = "retail" -> "retail brand logo appealing to customers"
         [] industry.val = "food" -> "food and beverage logo with appetite appeal"
         [] industry.val = "education" -> "educational logo promoting learning"
         [] OTHER -> "professional logo"

\* this.styleModifiers.get(style) || ""
styleModifiers(style) ==
  CASE style = "modern" -> "contemporary design, sleek lines, current trends"
    [] style = "vintage" -> "retro aesthetic, classic elements, nostalgic feel"
    [] style = "minimal" -> "simple clean design, essential elements only, whitespace"
    [] style = "playful" -> "vibrant colors, dynamic composition, fun elements"
    [] style = "classic" -> "timeless design, traditional elements, elegant"
    [] style = "bold" -> "strong visual impact, dramatic elements, confident"
    [] style = "elegant" -> "refined aesthetics, sophisticated, premium feel"
    [] style = "tech" -> "futuristic elements, digital theme, innovation"
    [] OTHER -> ""

buildBasePrompt(req, style, industry) ==
  <<style, " ", baseDescription(industry), " for ", req.company, ": ", req.prompt>>

addStyleElements(prompt, style) == prompt \o <<", ", styleModifiers(style)>>

addColorGuidance(prompt, colors) ==
  IF ~colors.given \/ Len(colors.val) = 0 THEN prompt
  ELSE prompt \o <<", ">> \o colorDesc(colors.val, "primarily ")

qualityModifiers ==
  <<"clean geometric shapes", "scalable vector design", "professional quality",
    "suitable for branding", "on white background", "high contrast",
    "memorable and distinctive">>

addQualityModifiers(prompt) == prompt \o <<", ">> \o joinWith(qualityModifiers, ", ")

\* PromptEngine.optimize
optimize(req, opts) ==
  LET style == Or(opts.style, Or(req.style, Some("modern"))).val
      industry == Or(opts.industry, req.industry)
  IN addQualityModifiers(
       addColorGuidance(
         addStyleElements(buildBasePrompt(req, style, industry), style),
         OrList(opts.colors, req.colors)))

\* ------------------------------------------------------------------------
\* ProfessionalPromptEngine
\* ------------------------------------------------------------------------
\* styleMap[style] || "Professional"
getStyleKeywords(style) ==
  CASE style = "modern" -> "Contemporary minimalist"
    [] style = "minimal" -> "Clean minimal geometric"
    [] style = "geometric" -> "Simple geometric flat"
    [] style = "abstract" -> "Abstract artistic"
    [] style = "corporate" -> "Professional corporate"
    [] style = "tech" -> "Modern tech sleek"
    [] style = "elegant" -> "Sophisticated elegant"
    [] style = "bold" -> "Strong bold impactful"
    [] style = "vintage" -> "Classic vintage retro"
    [] style = "playful" -> "Creative playful dynamic"
    [] style = "classic" -> "Traditional classic timeless"
    [] style = "wordmark" -> "Typography-focused wordmark"
    [] style = "lettermark" -> "Letter-based minimal"
    [] style = "pictorial" -> "Symbolic pictorial"
    [] style = "emblem" -> "Badge emblem"
    [] style = "combination" -> "Combined symbol-text"
    [] OTHER -> "Professional"

\* getTechnicalRequirements: the fixed requirements, the color clause when
\* options.colors has colors, and options.customElements, joined by ", ".
getTechnicalRequirements(opts) ==
  joinWith(<<"flat vector design", "scalable", "professional quality", "high contrast">>, ", ")
  \o (IF opts.colors.given /\ Len(opts.colors.val) > 0
        THEN <<", ">> \o colorDesc(opts.colors.val, "")
        ELSE <<>>)
  \o (IF opts.customElements.given /\ Len(opts.customElements.val) > 0
        THEN <<", ">> \o joinWith(opts.customElements.val, ", ")
        ELSE <<>>)

getDefaultNegatives ==
  <<"no realistic details", "no photorealistic details", "no shading detail",
    "no gradients", "no 3D effects", "no complex textures">>

\* ` --${negatives.join(" --")}`
negativeClause(negatives) == <<" --">> \o joinWith(negatives, " --")

\* generateStructuredPrompt: the parts joined by " ", then the negatives.
generateStructuredPrompt(req, opts) ==
  LET style == Or(opts.style, Or(req.style, Some("modern"))).val
      negatives == getDefaultNegatives
                   \o (IF opts.negativePrompts.given THEN opts.negativePrompts.val ELSE <<>>)
  IN <<getStyleKeywords(style), " ", "logo of", " ", req.company, ", ", req.prompt, " ">>
     \o getTechnicalRequirements(opts)
     \o <<" ", "on white background">>
     \o negativeClause(negatives)

\* The ids of the template library.
TemplateIds ==
  { "minimal-geometric", "minimal-lettermark", "corporate-tech", "corporate-finance",
    "industry-healthcare", "creative-abstract", "minimal-abstract",
    "corporate-consulting", "corporate-professional", "creative-artistic",
    "creative-playful", "industry-tech", "industry-finance", "industry-food",
    "industry-education", "minimal-wordmark", "minimal-emblem", "corporate-startup",
    "corporate-legal", "creative-modern", "creative-handcraft",
    "creative-entertainment", "industry-real-estate", "industry-automotive",
    "industry-wellness", "industry-nonprofit" }

\* basePrompt and negativePrompts of the first template of the library, the
\* text cut at its placeholders; the other templates are built the same way.
templates(id) ==
  [basePrompt |-> <<"Minimalist geometric logo, ", "[SHAPE]",
                    " form, flat vector design, ", "[PRIMARY_COLOR]",
                    " on white background, sharp edges, scalable">>,
   negativePrompts |-> <<"no gradients", "no 3D effects", "no ornate details">>]

\* interpolateTemplate: find-and-replace of the placeholders.
interpolateTemplate(template, req, opts) ==
  [i \in 1..Len(template) |->
     CASE template[i] = "[COMPANY]" -> req.company
       [] template[i] = "[PROMPT]" -> req.prompt
       [] template[i] = "[STYLE]" -> Or(opts.style, Some("modern")).val
       [] template[i] = "[INDUSTRY]" -> Or(opts.industry, Some("business")).val
       [] template[i] = "[PRIMARY_COLOR]"
            /\ opts.colors.given /\ Len(opts.colors.val) > 0 -> opts.colors.val[1]
       [] template[i] = "[SECONDARY_COLOR]"
            /\ opts.colors.given /\ Len(opts.colors.val) > 0 ->
              opts.colors.val[IF Len(opts.colors.val) > 1 THEN 2 ELSE 1]
       [] OTHER -> template[i]]

\* A template lookup that answers every id with a template.
generateFromTemplateAnyId(req, opts) ==
  LET template == templates(opts.template.val)
      negatives == template.negativePrompts
                   \o (IF opts.negativePrompts.given THEN opts.negativePrompts.val ELSE <<>>)
  IN Resolved(interpolateTemplate(template.basePrompt, req, opts)
              \o getTechnicalRequirements(opts)
              \o (IF Len(negatives) > 0 THEN negativeClause(negatives) ELSE <<>>))

\* generateFromTemplate: throws when the id is not in the library.
generateFromTemplate(req, opts) ==
  IF opts.template.val \notin TemplateIds
    THEN Rejected(<<"Template not found: ", opts.template.val>>)
    ELSE
      LET template == templates(opts.template.val)
          negatives == template.negativePrompts
                       \o (IF opts.negativePrompts.given THEN opts.negativePrompts.val ELSE <<>>)
      IN Resolved(interpolateTemplate(template.basePrompt, req, opts)
                  \o getTechnicalRequirements(opts)
                  \o (IF Len(negatives) > 0 THEN negativeClause(negatives) ELSE <<>>))

\* ProfessionalPromptEngine.optimizePrompt
optimizePrompt(req, opts) ==
  IF TruthyStr(opts.template)
    THEN generateFromTemplate(req, opts)
    ELSE Resolved(generateStructuredPrompt(req, opts))

\* ------------------------------------------------------------------------
\* LogoGenerator
\* ------------------------------------------------------------------------
\* The cost table of calculateCost (amounts in cents): qualityMap[quality] || 0.07
calculateCost(quality) ==
  CASE quality = "standard" -> 7
    [] quality = "hd" -> 19
    [] OTHER -> 7

\* execute(operation, maxRetries = 3): the default generate relies on.
DefaultMaxRetries == 3

\* A LogoRequest with company and prompt only.
LogoRequest(id, company, prompt) ==
  [id |-> id, company |-> company, prompt |-> prompt, style |-> Absent,
   industry |-> Absent, colors |-> NoList, quality |-> Absent]

RequestIds == {1, 2}

\* Two requests that differ in (company, prompt, style, colors).
Requests == { LogoRequest(1, "Acme", "bold new idea"), LogoRequest(2, "Globex", "rocket") }

NoRequest == LogoRequest(0, "", "")

\* options = {}
NoOptions ==
  [style |-> Absent, industry |-> Absent, colors |-> NoList, quality |-> Absent,
   template |-> Absent, negativePrompts |-> NoList, customElements |-> NoList]

\* buildAPIParams: the prompt and the quality sent to the image API.
buildAPIParams(prompt, opts) ==
  [model |-> "gpt-image-1", prompt |-> prompt,
   quality |-> CASE Or(opts.quality, Some("standard")).val = "standard" -> "medium"
                 [] Or(opts.quality, Some("standard")).val = "hd" -> "high"
                 [] OTHER -> "medium"]

\* createMetadata (id, timestamp and size are left out).
createMetadata(req, finalPrompt, opts) ==
  [company |-> req.company,
   originalPrompt |-> req.prompt,
   finalPrompt |-> finalPrompt,
   style |-> Or(opts.style, Or(req.style, Some("modern"))).val,
   industry |-> Or(opts.industry, req.industry),
   quality |-> Or(opts.quality, Or(req.quality, Some("standard"))).val,
   cost |-> calculateCost(Or(opts.quality, Some("standard")).val)]

NoApiParams == [model |-> "", prompt |-> <<>>, quality |-> ""]

NoMetadata == createMetadata(NoRequest, <<>>, NoOptions)

\* No call of generate yet.  status: none, pending, returned, thrown; entered:
\* the call reached retryStrategy.execute.
NoGenerated ==
  [status |-> "none", entered |-> FALSE, error |-> <<>>, optimizedPrompt |-> <<>>,
   apiParams |-> NoApiParams, metadata |-> NoMetadata]

\* generate is not running and has served nothing yet.
GenerateIdle ==
  /\ gpc = "idle"
  /\ request = NoRequest
  /\ options = NoOptions
  /\ generated = NoGenerated
  /\ served = [r \in RequestIds |-> 0]

\* generate(request, options): the prompt is optimized, by the professional
\* engine when options.template is set and by PromptEngine otherwise; an engine
\* that throws makes generate reject at once; else the API call, with the
\* parameters built from the prompt, is handed to retryStrategy.execute.
GenerateCall(r, o) ==
  /\ gpc = "idle"
  /\ rpc = "idle"
  /\ request' = r
  /\ options' = o
  /\ LET optimizedPrompt == IF TruthyStr(o.template)
                              THEN optimizePrompt(r, o)
                              ELSE Resolved(optimize(r, o))
     IN IF optimizedPrompt.threw
          THEN /\ generated' = [NoGenerated EXCEPT !.status = "thrown",
                                                   !.error = optimizedPrompt.value]
               /\ gpc' = "idle"
               /\ UNCHANGED retryVars
          ELSE /\ generated' = [NoGenerated EXCEPT
                                  !.status = "pending", !.entered = TRUE,
                                  !.optimizedPrompt = optimizedPrompt.value,
                                  !.apiParams = buildAPIParams(optimizedPrompt.value, o)]
               /\ gpc' = "execute"
               /\ maxRetries' = DefaultMaxRetries
               /\ attempt' = 1
               /\ lastError' = NoError
               /\ rpc' = "loop"
               /\ outcome' = NoOutcome
               /\ delay' = 0
               /\ effects' = NoEffects
  /\ UNCHANGED served
  /\ UNCHANGED nonGenerateVars

\* execute returned the result of the API call, with the metadata the
\* operation created: generate returns it.
GenerateReturn ==
  /\ gpc = "execute"
  /\ rpc = "returned"
  /\ gpc' = "idle"
  /\ generated' = [generated EXCEPT
                     !.status = "returned",
                     !.metadata = createMetadata(request, generated.optimizedPrompt, options)]
  /\ served' = [served EXCEPT ![request.id] = clock]
  /\ rpc' = "idle"
  /\ UNCHANGED <<request, options, maxRetries, attempt, lastError, outcome, delay, effects>>
  /\ UNCHANGED nonGenerateVars

\* execute threw: generate rejects with the same error.
GenerateThrow ==
  /\ gpc = "execute"
  /\ rpc = "thrown"
  /\ gpc' = "idle"
  /\ generated' = [generated EXCEPT !.status = "thrown", !.error = outcome.error.message]
  /\ rpc' = "idle"
  /\ UNCHANGED <<request, options, served, maxRetries, attempt, lastError, outcome, delay, effects>>
  /\ UNCHANGED nonGenerateVars

GenerateNext ==
  \/ \E r \in Requests : GenerateCall(r, NoOptions)
  \/ Invoke
  \/ Exhausted
  \/ OpResolve
  \/ \E e \in Errors : OpReject(e)
  \/ Wake
  \/ GenerateReturn
  \/ GenerateThrow
  \/ Tick

\* The values of quality: absent, standard, hd.
Qualities == {Absent, Some("standard"), Some("hd")}

\* Requests for one company with every quality, with and without a style;
\* the styled ones name an industry too.
RequestVariants ==
  { [LogoRequest(1, "Acme", "bold new idea") EXCEPT
       !.style = s, !.industry = IF s.given THEN Some("finance") ELSE Absent,
       !.quality = q] :
      s \in {Absent, Some("vintage")}, q \in Qualities }

\* Options with every quality; no template, an empty template id, one of the
\* library and one that is not; with and without a style; with and without
\* colors, the colored ones with a negative prompt of their own.
OptionVariants ==
  { [NoOptions EXCEPT
       !.template = t, !.quality = q, !.style = s, !.colors = c,
       !.negativePrompts = IF c.given THEN [given |-> TRUE, val |-> <<"no text">>]
                                      ELSE NoList] :
      t \in {Absent, Some(""), Some("minimal-geometric"), Some("no-such-template")},
      q \in Qualities,
      s \in {Absent, Some("tech")},
      c \in {NoList, [given |-> TRUE, val |-> <<"red", "blue">>]} }

\* generate called, and called again, with the request and options at hand.
GenerateOptionsNext ==
  \/ GenerateCall(request, options)
  \/ Invoke
  \/ Exhausted
  \/ OpResolve
  \/ \E e \in Errors : OpReject(e)
  \/ Wake
  \/ GenerateReturn
  \/ GenerateThrow

\* ------------------------------------------------------------------------
\* ImageDownloader.createIterationManifest
\* ------------------------------------------------------------------------
\* iterations.json is absent, holds text that JSON.parse rejects, holds the
\* JSON value null, or holds a JSON object with or without an iterations array.
ManifestFile(kind, hasIterations, iterations) ==
  [kind |-> kind, hasIterations |-> hasIterations, iterations |-> iterations]

NoManifest == ManifestFile("absent", FALSE, <<>>)

\* A record an earlier run left in the manifest.
PriorRecord(i) ==
  [iteration |-> i, description |-> 1, count |-> 1, totalCost |-> 7,
   logos |-> <<[company |-> i, cost |-> 7]>>]

ManifestFiles ==
  {NoManifest,
   ManifestFile("text", FALSE, <<>>),
   ManifestFile("null", FALSE, <<>>),
   ManifestFile("object", FALSE, <<>>)}
  \cup {ManifestFile("object", TRUE, [i \in 1..n |-> PriorRecord(i)]) : n \in 0..2}

\* The iterationData record of a call.
IterationData(iteration, description, successful) ==
  [iteration |-> iteration,
   description |-> description,
   count |-> Len(successful),
   totalCost |-> SumCost(successful),
   logos |-> [i \in 1..Len(successful) |->
                [company |-> successful[i].request, cost |-> successful[i].cost]]]

\* What JSON.parse(await Deno.readTextFile(manifestPath)) leaves in `manifest`,
\* with the catch that starts an empty manifest.
readManifest(file) ==
  IF file.kind \in {"absent", "text"}
    THEN ManifestFile("object", TRUE, <<>>)
    ELSE file

\* A manifest writer that starts from an empty list each time.
createIterationManifestOverwrite(file, iteration, description, successful, writeOk) ==
  LET parsed == readManifest(file)
      iterationData == IterationData(iteration, description, successful) IN
    IF parsed.kind = "null"
      THEN Rejected(file)
      ELSE IF writeOk
             THEN Resolved(ManifestFile("object", TRUE, <<iterationData>>))
             ELSE Rejected(file)

\* createIterationManifest: the file it leaves, or the file untouched when
\* reading a property of null or Deno.writeTextFile throws.
createIterationManifest(file, iteration, description, successful, writeOk) ==
  LET parsed == readManifest(file)
      iterationData == IterationData(iteration, description, successful) IN
    IF parsed.kind = "null"
      THEN Rejected(file)
      ELSE LET iterations == IF parsed.hasIterations THEN parsed.iterations ELSE <<>> IN
             IF writeOk
               THEN Resolved(ManifestFile("object", TRUE, Append(iterations, iterationData)))
               ELSE Rejected(file)

\* The entry of `created` for a call.
CreatedCall(file, iteration, description, successful, writeOk) ==
  [before |-> file,
   iterationData |-> IterationData(iteration, description, successful),
   threw |-> createIterationManifest(file, iteration, description, successful, writeOk).threw]

\* A call of createIterationManifest, from start to end.
CreateIterationManifest(iteration, description, successful, writeOk) ==
  /\ manifest' = createIterationManifest(manifest, iteration, description,
                                          successful, writeOk).value
  /\ created' = Append(created, CreatedCall(manifest, iteration, description,
                                            successful, writeOk))

\* A successful result of request i.
LogoResult(i, cost) == [request |-> i, cost |-> cost, localPath |-> TRUE]

\* The results lists createIterationManifest is called with.
ResultLists ==
  {<<>>,
   <<LogoResult(1, 7)>>,
   <<LogoResult(2, 19), LogoResult(1, 7)>>}

IterationNumbers == 1..2

\* createIterationManifest called on its own, one call after the other.
ManifestCall ==
  /\ Len(created) < MaxCalls
  /\ \E iteration \in IterationNumbers, successful \in ResultLists, writeOk \in BOOLEAN :
       CreateIterationManifest(iteration, Len(successful), successful, writeOk)
  /\ UNCHANGED <<batch, results, limit, tasks, completed, ticks, bpc>>
  /\ UNCHANGED nonBatchVars

ManifestNext == ManifestCall

ManifestInit ==
  /\ manifest \in ManifestFiles
  /\ created = <<>>

\* No call of createIterationManifest was made, and there is no manifest.
ManifestIdle ==
  /\ manifest = NoManifest
  /\ created = <<>>

\* ------------------------------------------------------------------------
\* processBatch
\* ------------------------------------------------------------------------
DefaultConcurrency == 3

QualityCycle == <<"standard", "hd", "none">>

\* The i-th request of the input file; its quality cycles through the values.
MkRequest(i) == [company |-> i, quality |-> QualityCycle[((i - 1) % 3) + 1]]

NoResult == [cost |-> 0, request |-> 0, localPath |-> FALSE]

N == Len(batch.requests)

InFlight == {i \in 1..N : tasks[i].st \in {"generating", "downloading"}}

Finished == {i \in 1..N : tasks[i].st = "done"}

BatchInit ==
  /\ \E n \in 0..MaxRequests,
        c \in {Undefined} \cup (1..MaxConcurrency),
        o \in {Undefined, 1},
        it \in {Undefined, 0, 1} :
       batch = [requests |-> [i \in 1..n |-> MkRequest(i)],
                concurrency |-> c, outputDir |-> o, iteration |-> it]
  /\ results = [successful |-> <<>>, failed |-> <<>>,
                stats |-> [total |-> 0, successful |-> 0, failed |-> 0,
                           totalCost |-> 0, duration |-> 0]]
  /\ limit = [concurrency |-> 0, activeCount |-> 0, queue |-> <<>>]
  /\ tasks = [i \in 1..Len(batch.requests) |-> [st |-> "new", logoResult |-> NoResult]]
  /\ completed = 0
  /\ ticks = 0
  /\ manifest \in {NoManifest, ManifestFile("object", TRUE, <<PriorRecord(1)>>)}
  /\ created = <<>>
  /\ bpc = "start"
  /\ RetryIdle
  /\ CacheIdle
  /\ GenerateIdle
  /\ HashIdle
  /\ StandaloneIdle

\* processBatch has not been called.
ProcessBatchIdle ==
  /\ batch = [requests |-> <<>>, concurrency |-> Undefined,
              outputDir |-> Undefined, iteration |-> Undefined]
  /\ results = [successful |-> <<>>, failed |-> <<>>,
                stats |-> [total |-> 0, successful |-> 0, failed |-> 0,
                           totalCost |-> 0, duration |-> 0]]
  /\ limit = [concurrency |-> 0, activeCount |-> 0, queue |-> <<>>]
  /\ tasks = <<>>
  /\ completed = 0
  /\ ticks = 0
  /\ bpc = "idle"

\* processBatch has not been called and there is no manifest.
BatchIdle == ProcessBatchIdle /\ ManifestIdle

\* pLimit(batch.concurrency || 3)
pLimit(concurrency) == [concurrency |-> concurrency, activeCount |-> 0, queue |-> <<>>]

\* The head of processBatch: the empty results and the limiter.
ProcessBatchStart ==
  /\ bpc = "start"
  /\ results' = [successful |-> <<>>, failed |-> <<>>,
                 stats |-> [total |-> N, successful |-> 0, failed |-> 0,
                            totalCost |-> 0, duration |-> 0]]
  /\ limit' = pLimit(OrDefault(batch.concurrency, DefaultConcurrency))
  /\ completed' = 0
  /\ bpc' = IF N = 0 THEN "await" ELSE "map"
  /\ UNCHANGED <<batch, tasks, ticks, manifest, created>>
  /\ UNCHANGED nonBatchVars

\* batch.requests.map(request => limit(...)): p-limit's enqueue puts the task on
\* the queue and schedules one microtask that will try to start a queued task.
Enqueue ==
  /\ bpc = "map"
  /\ LET i == Len(limit.queue) + 1 IN
       /\ i <= N
       /\ tasks[i].st = "new"
       /\ limit' = [limit EXCEPT !.queue = Append(@, i)]
       /\ tasks' = [tasks EXCEPT ![i].st = "queued"]
       /\ ticks' = ticks + 1
       /\ bpc' = IF i = N THEN "await" ELSE "map"
  /\ UNCHANGED <<batch, results, completed, manifest, created>>
  /\ UNCHANGED nonBatchVars

\* A limiter that forgets to count the task it starts.
RunUncounted(lim, tk) ==
  LET i == Head(lim.queue) IN
    [limit |-> [lim EXCEPT !.queue = Tail(@)],
     tasks |-> [tk EXCEPT ![i].st = "generating"]]

\* p-limit's run: count the task as active and call the task function, which
\* runs up to its first await (generator.generate).
Run(lim, tk) ==
  LET i == Head(lim.queue) IN
    [limit |-> [lim EXCEPT !.activeCount = @ + 1, !.queue = Tail(@)],
     tasks |-> [tk EXCEPT ![i].st = "generating"]]

\* The microtask of enqueue: start the head of the queue if a slot is free.
TryStart ==
  /\ bpc = "await"
  /\ ticks > 0
  /\ ticks' = ticks - 1
  /\ IF limit.activeCount < limit.concurrency /\ Len(limit.queue) > 0
       THEN /\ limit' = Run(limit, tasks).limit
            /\ tasks' = Run(limit, tasks).tasks
       ELSE UNCHANGED <<limit, tasks>>
  /\ UNCHANGED <<batch, results, completed, manifest, created, bpc>>
  /\ UNCHANGED nonBatchVars

\* A limiter that frees the slot but never starts a queued task.
NextTaskNoStart(lim, tk) ==
  [limit |-> [lim EXCEPT !.activeCount = @ - 1], tasks |-> tk]

\* p-limit's next, run when a task function has settled: free the slot and
\* start the head of the queue, if any.
NextTask(lim, tk) ==
  LET freed == [lim EXCEPT !.activeCount = @ - 1] IN
    IF Len(freed.queue) > 0
      THEN Run(freed, tk)
      ELSE [limit |-> freed, tasks |-> tk]

\* A success branch that forgets to add the cost of the result.
RecordSuccessUncosted(i, logoResult) ==
  /\ results' = [results EXCEPT
                   !.successful = Append(@, logoResult),
                   !.stats.successful = @ + 1]
  /\ completed' = completed + 1
  /\ LET nx == NextTask(limit, [tasks EXCEPT ![i] = [st |-> "done", logoResult |-> logoResult]]) IN
       /\ limit' = nx.limit
       /\ tasks' = nx.tasks

\* The success branch of the task function, then p-limit's next.
RecordSuccess(i, logoResult) ==
  /\ results' = [results EXCEPT
                   !.successful = Append(@, logoResult),
                   !.stats.successful = @ + 1,
                   !.stats.totalCost = @ + logoResult.cost]
  /\ completed' = completed + 1
  /\ LET nx == NextTask(limit, [tasks EXCEPT ![i] = [st |-> "done", logoResult |-> logoResult]]) IN
       /\ limit' = nx.limit
       /\ tasks' = nx.tasks

\* A catch branch that swallows the failure without recording it.
RecordFailureDropped(i, error) ==
  /\ results' = results
  /\ completed' = completed + 1
  /\ LET nx == NextTask(limit, [tasks EXCEPT ![i].st = "done"]) IN
       /\ limit' = nx.limit
       /\ tasks' = nx.tasks

\* The catch branch of the task function, then p-limit's next.
RecordFailure(i, error) ==
  /\ results' = [results EXCEPT
                   !.failed = Append(@, [request |-> i, error |-> error]),
                   !.stats.failed = @ + 1]
  /\ completed' = completed + 1
  /\ LET nx == NextTask(limit, [tasks EXCEPT ![i].st = "done"]) IN
       /\ limit' = nx.limit
       /\ tasks' = nx.tasks

\* The result generate returns for request i, called with the request's own
\* quality as options.quality.
GeneratedResult(i) ==
  [request |-> i,
   cost |-> calculateCost(IF batch.requests[i].quality = "none"
                            THEN "standard" ELSE batch.requests[i].quality),
   localPath |-> FALSE]

\* generator.generate resolves.
GenerateOk(i) ==
  /\ i \in 1..N
  /\ bpc = "await" /\ ticks = 0
  /\ tasks[i].st = "generating"
  /\ IF Truthy(batch.outputDir)
       THEN /\ tasks' = [tasks EXCEPT ![i] = [st |-> "downloading",
                                              logoResult |-> GeneratedResult(i)]]
            /\ UNCHANGED <<results, completed, limit>>
       ELSE RecordSuccess(i, GeneratedResult(i))
  /\ UNCHANGED <<batch, ticks, manifest, created, bpc>>
  /\ UNCHANGED nonBatchVars

\* generator.generate rejects.
GenerateFail(i) ==
  /\ i \in 1..N
  /\ bpc = "await" /\ ticks = 0
  /\ tasks[i].st = "generating"
  /\ RecordFailure(i, "generate")
  /\ UNCHANGED <<batch, ticks, manifest, created, bpc>>
  /\ UNCHANGED nonBatchVars

\* How a call of download goes: "ok"; "download" when fetching the image or
\* writing its bytes fails; "metadata" when the image was fetched and written
\* and saveMetadata (ensureDir or Deno.writeTextFile) then fails.
DownloadOutcomes == {"ok", "download", "metadata"}

\* Whether the image file is on disk after a call of download.
imageWritten(io) == io \in {"ok", "metadata"}

\* ImageDownloader.download: the result completed with its local path, or
\* the error its catch rethrows, named by what failed inside the try.
download(logoResult, io) ==
  IF io = "ok"
    THEN Resolved([logoResult EXCEPT !.localPath = TRUE])
    ELSE Rejected(io)

\* downloader.download resolves with the local path.
DownloadOk(i) ==
  /\ i \in 1..N
  /\ bpc = "await" /\ ticks = 0
  /\ tasks[i].st = "downloading"
  /\ RecordSuccess(i, download(tasks[i].logoResult, "ok").value)
  /\ UNCHANGED <<batch, ticks, manifest, created, bpc>>
  /\ UNCHANGED nonBatchVars

\* downloader.download rejects.
DownloadFail(i) ==
  /\ i \in 1..N
  /\ bpc = "await" /\ ticks = 0
  /\ tasks[i].st = "downloading"
  /\ \E io \in DownloadOutcomes \ {"ok"} :
       /\ download(tasks[i].logoResult, io).threw
       /\ RecordFailure(i, download(tasks[i].logoResult, io).value)
  /\ UNCHANGED <<batch, ticks, manifest, created, bpc>>
  /\ UNCHANGED nonBatchVars

\* await Promise.all(promises) resumes once every task has settled; the tail
\* of processBatch appends the manifest record when one is due, and returns.
ProcessBatchReturn ==
  /\ bpc = "await" /\ ticks = 0
  /\ Finished = 1..N
  /\ IF /\ Truthy(batch.iteration)
        /\ Truthy(batch.outputDir)
        /\ Len(results.successful) > 0
       THEN CreateIterationManifest(batch.iteration, N, results.successful, TRUE)
       ELSE UNCHANGED <<manifest, created>>
  /\ bpc' = "returned"
  /\ UNCHANGED <<batch, results, limit, tasks, completed, ticks>>
  /\ UNCHANGED nonBatchVars

BatchNext ==
  \/ ProcessBatchStart
  \/ Enqueue
  \/ TryStart
  \/ \E i \in 1..N : GenerateOk(i)
  \/ \E i \in 1..N : GenerateFail(i)
  \/ \E i \in 1..N : DownloadOk(i)
  \/ \E i \in 1..N : DownloadFail(i)
  \/ ProcessBatchReturn

SpecBatch == BatchInit /\ [][BatchNext]_vars

\* Date.now() advances while processBatch runs; the cache's clock, which
\* stands at 0 when processBatch is called, is the wall clock.
BatchTick ==
  /\ bpc \in {"map", "await"}
  /\ Tick

BatchClockNext ==
  \/ BatchNext
  \/ BatchTick

\* processBatch under a clock that advances during the run.
SpecBatchClock == BatchInit /\ [][BatchClockNext]_vars

\* The event loop runs every continuation that is ready, and every generate and
\* download call eventually resolves or rejects.
BatchFairness ==
  /\ WF_vars(ProcessBatchStart)
  /\ WF_vars(Enqueue)
  /\ WF_vars(TryStart)
  /\ \A i \in 1..MaxRequests : WF_vars(GenerateOk(i) \/ GenerateFail(i))
  /\ \A i \in 1..MaxRequests : WF_vars(DownloadOk(i) \/ DownloadFail(i))
  /\ WF_vars(ProcessBatchReturn)

SpecBatchFair == BatchInit /\ [][BatchNext]_vars /\ BatchFairness

\* ------------------------------------------------------------------------
\* parseCSV
\* ------------------------------------------------------------------------
\* Text is a sequence of characters; a word of a header or a cell counts as
\* one character.
Whitespace == {" ", "\n", "\r"}

RECURSIVE trimStart(_)
trimStart(str) ==
  IF str # <<>> /\ Head(str) \in Whitespace THEN trimStart(Tail(str)) ELSE str

RECURSIVE trimEnd(_)
trimEnd(str) ==
  IF str # <<>> /\ str[Len(str)] \in Whitespace
    THEN trimEnd(SubSeq(str, 1, Len(str) - 1))
    ELSE str

\* String.prototype.trim
trim(str) == trimEnd(trimStart(str))

\* String.prototype.split(sep) for a one-character separator.
RECURSIVE split(_, _)
split(str, sep) ==
  IF \A k \in 1..Len(str) : str[k] # sep
    THEN <<str>>
    ELSE LET k == CHOOSE j \in 1..Len(str) :
                    str[j] = sep /\ \A h \in 1..(j - 1) : str[h] # sep IN
           <<SubSeq(str, 1, k - 1)>> \o split(SubSeq(str, k + 1, Len(str)), sep)

\* replace(/^"|"$/g, ""): a leading and a trailing double quote are removed.
stripQuotes(str) ==
  LET rest == IF str # <<>> /\ Head(str) = "\"" THEN Tail(str) ELSE str IN
    IF rest # <<>> /\ rest[Len(rest)] = "\""
      THEN SubSeq(rest, 1, Len(rest) - 1)
      ELSE rest

\* values[idx] for the last header whose lower-cased name is one of names, as
\* headers.forEach leaves it in the request; initial when no header has such
\* a name.  A row shorter than the headers yields undefined.
fieldOf(headers, values, names, initial) ==
  LET cols == {idx \in 1..Len(headers) : LowerCase(headers[idx]) \in names} IN
    IF cols = {}
      THEN initial
      ELSE LET idx == CHOOSE c \in cols : \A d \in cols : d <= c IN
             IF idx <= Len(values) THEN Given(values[idx]) ELSE NotGiven

\* if (x) for an optional string.
TruthyText(x) == x.given /\ x.val # <<>>

\* The request built from one data line.
rowRequest(headers, line) ==
  LET cells == split(line, ",")
      values == [k \in 1..Len(cells) |-> stripQuotes(trim(cells[k]))]
      colors == fieldOf(headers, values, {<<"colors">>}, NotGiven) IN
    [company |-> fieldOf(headers, values, {<<"company">>}, Given(<<>>)),
     prompt |-> fieldOf(headers, values, {<<"prompt">>, <<"description">>}, Given(<<>>)),
     style |-> fieldOf(headers, values, {<<"style">>}, NotGiven),
     colors |-> IF TruthyText(colors)
                  THEN LET parts == split(colors.val, ";") IN
                         Given([k \in 1..Len(parts) |-> trim(parts[k])])
                  ELSE NotGiven]

\* The headers of the first line.
headersOf(content) ==
  LET hs == split(split(trim(content), "\n")[1], ",") IN
    [k \in 1..Len(hs) |-> trim(hs[k])]

\* A parser that keeps every data row.
parseCSVUnfiltered(content) ==
  LET lines == split(trim(content), "\n")
      all == [i \in 1..(Len(lines) - 1) |-> rowRequest(headersOf(content), lines[i + 1])] IN
    all

parseCSV(content) ==
  LET lines == split(trim(content), "\n")
      all == [i \in 1..(Len(lines) - 1) |-> rowRequest(headersOf(content), lines[i + 1])]
      kept(r) == TruthyText(r.company) /\ TruthyText(r.prompt) IN
    SelectSeq(all, kept)

\* Array.prototype.join
RECURSIVE joinText(_, _)
joinText(parts, sep) ==
  IF parts = <<>> THEN <<>>
  ELSE IF Len(parts) = 1 THEN parts[1]
  ELSE parts[1] \o <<sep>> \o joinText(Tail(parts), sep)

\* The header lines of the batch files: the header cells as written, the
\* columns that hold the company, the prompt (0: none) and the colors, and
\* how the file ends its lines.
HeaderLayouts ==
  { [headers |-> << <<"company">>, <<"prompt">>, <<"colors">> >>,
     company |-> 1, prompt |-> 2, colors |-> 3, crlf |-> FALSE],
    [headers |-> << <<"description">>, <<" ", "Company">>, <<"colors">> >>,
     company |-> 2, prompt |-> 1, colors |-> 3, crlf |-> TRUE],
    [headers |-> << <<"Company">>, <<"style">>, <<"colors", " ">> >>,
     company |-> 1, prompt |-> 0, colors |-> 3, crlf |-> FALSE] }

\* What a text cell of a data row can hold.
TextCells ==
  { <<>>,
    <<"a">>,
    <<" ", "\"", "b", "\"", " ">>,
    <<"\"", " ", "\"">> }

\* What a colors cell of a data row can hold.
ColorsCells ==
  { <<>>,
    <<"a", ";", "b">>,
    <<"\"", "a", ";", " ", "b", "\"">> }

\* The data rows: three cells, the third empty or, in a row that starts with
\* a filled cell, a list of colors; or a row cut short after its first cell.
DataRows ==
  { <<x, y, <<>> >> : x \in TextCells, y \in TextCells }
  \cup { <<x, y, c>> : x \in {t \in TextCells : Len(t) \in {1, 5}},
                       y \in TextCells, c \in ColorsCells \ {<<>>} }
  \cup { <<x>> : x \in {<<"a">>} }

\* The text of a file with the given header layout and data rows.
fileText(layout, rows) ==
  LET eol == IF layout.crlf THEN <<"\r", "\n">> ELSE <<"\n">>
      line(cells) == joinText(cells, ",") \o eol
      RECURSIVE body(_)
      body(rs) == IF rs = <<>> THEN <<>> ELSE line(Head(rs)) \o body(Tail(rs)) IN
    line(layout.headers) \o body(rows)

\* A batch file is at hand.
CsvInit ==
  \E layout \in HeaderLayouts, n \in 0..MaxRows :
    \E rows \in [1..n -> DataRows] :
      csv = [pc |-> "read", headers |-> layout, rows |-> rows,
             content |-> fileText(layout, rows), requests |-> <<>>]

\* loadBatchFile hands the text to parseCSV.
ParseCSV ==
  /\ csv.pc = "read"
  /\ csv' = [csv EXCEPT !.pc = "parsed", !.requests = parseCSV(csv.content)]
  /\ UNCHANGED <<batchVars, retryVars, cacheVars, generateVars, hashVars,
                 command, backoff>>

CsvNext == ParseCSV

\* ------------------------------------------------------------------------
\* The generate command
\* ------------------------------------------------------------------------
\* The k-th result of generate or generateVariations.
CommandResult(k) == [request |-> k, cost |-> calculateCost("standard"), localPath |-> FALSE]

\* The action of the command is about to call the generator: how the call and
\* each download will go, and the --no-download and --iteration options.
CommandInit ==
  /\ \E n \in 1..MaxVariations :
       command \in { [NoCommand EXCEPT !.pc = "generate", !.generateOk = g,
                                       !.download = d, !.iteration = it,
                                       !.io = io, !.writeOk = w] :
                       g \in BOOLEAN, d \in BOOLEAN, it \in {Undefined, 0, 1},
                       io \in [1..n -> DownloadOutcomes], w \in BOOLEAN }
  /\ ManifestIdle

\* The catch of the action: report the failure and Deno.exit(1).
CommandFailed(cmd) == [cmd EXCEPT !.pc = "done", !.reported = TRUE, !.exit = 1]

\* The end of the action, reached without an exception.
CommandCompleted(cmd) == [cmd EXCEPT !.pc = "done", !.exit = 0]

\* generator.generate or generateVariations settles.
CommandGenerate ==
  /\ command.pc = "generate"
  /\ command' =
       IF ~command.generateOk
         THEN CommandFailed(command)
         ELSE LET got == [command EXCEPT
                            !.results = [k \in 1..Len(command.io) |-> CommandResult(k)]] IN
                IF command.download
                  THEN [got EXCEPT !.pc = "download"]
                  ELSE CommandCompleted(got)
  /\ UNCHANGED <<batchVars, csv, backoff>>
  /\ UNCHANGED <<retryVars, cacheVars, generateVars, hashVars>>

\* One round of downloadBatch's loop: the path is kept, or the failure is
\* logged and the loop goes on.
CommandDownload ==
  /\ command.pc = "download"
  /\ LET k == Len(command.filepaths) + Len(command.logged) + 1 IN
       /\ k <= Len(command.results)
       /\ IF download(command.results[k], command.io[k]).threw
            THEN command' = [command EXCEPT
                   !.logged = Append(@, [request |-> k,
                                         error |-> download(command.results[k],
                                                            command.io[k]).value])]
            ELSE command' = [command EXCEPT !.filepaths = Append(@, k)]
  /\ UNCHANGED <<batchVars, csv, backoff>>
  /\ UNCHANGED <<retryVars, cacheVars, generateVars, hashVars>>

\* downloadBatch has returned: the manifest when --iteration is set, then the
\* end of the action.
CommandManifest ==
  /\ command.pc = "download"
  /\ Len(command.filepaths) + Len(command.logged) = Len(command.results)
  /\ IF Truthy(command.iteration)
       THEN /\ CreateIterationManifest(command.iteration, 1, command.results,
                                       command.writeOk)
            /\ command' =
                 IF createIterationManifest(manifest, command.iteration, 1,
                                            command.results, command.writeOk).threw
                   THEN CommandFailed(command)
                   ELSE CommandCompleted(command)
       ELSE /\ command' = CommandCompleted(command)
            /\ UNCHANGED <<manifest, created>>
  /\ UNCHANGED <<batch, results, limit, tasks, completed, ticks, bpc, csv, backoff>>
  /\ UNCHANGED <<retryVars, cacheVars, generateVars, hashVars>>

CommandNext ==
  \/ CommandGenerate
  \/ CommandDownload
  \/ CommandManifest

\* execute runs on its own.
InitRetry ==
  RetryInit /\ BatchIdle /\ CacheIdle /\ GenerateIdle /\ HashIdle /\ StandaloneIdle

SpecRetry == InitRetry /\ [][RetryNext]_vars

\* The cache is used on its own, one call after the other.
InitCache ==
  CacheInit /\ BatchIdle /\ RetryIdle /\ GenerateIdle /\ HashIdle /\ StandaloneIdle

SpecCache == InitCache /\ [][CacheNext]_vars

\* createIterationManifest is called on its own.
InitManifest ==
  ManifestInit /\ ProcessBatchIdle /\ RetryIdle /\ CacheIdle /\ GenerateIdle /\ HashIdle
  /\ StandaloneIdle

SpecManifest == InitManifest /\ [][ManifestNext]_vars

\* The generate command is run on its own.
InitCommand ==
  /\ CommandInit
  /\ ProcessBatchIdle /\ RetryIdle /\ CacheIdle /\ GenerateIdle /\ HashIdle
  /\ CsvIdle /\ BackoffIdle

SpecCommand == InitCommand /\ [][CommandNext]_vars

\* parseCSV is called on its own.
InitCsv ==
  /\ CsvInit
  /\ BatchIdle /\ RetryIdle /\ CacheIdle /\ GenerateIdle /\ HashIdle
  /\ CommandIdle /\ BackoffIdle

SpecCsv == InitCsv /\ [][CsvNext]_vars

\* calculateBackoffDelay is called on its own.
InitBackoff ==
  /\ BackoffInit
  /\ BatchIdle /\ RetryIdle /\ CacheIdle /\ GenerateIdle /\ HashIdle
  /\ CommandIdle /\ CsvIdle

SpecBackoff == InitBackoff /\ [][BackoffNext]_vars

GenerateInit ==
  /\ GenerateIdle
  /\ RetryIdle
  /\ BatchIdle
  /\ HashIdle
  /\ StandaloneIdle
  /\ clock = 1
  /\ ttl \in 1..MaxTtl
  /\ maxSize = MaxBytes
  /\ memoryCache = [k \in Keys |-> Null]
  /\ files = [k \in Keys |-> NoFile]
  /\ cacheDirExists = FALSE
  /\ last = NoCall
  /\ lastSet = [k \in Keys |-> NoSet]

SpecGenerate == GenerateInit /\ [][GenerateNext]_vars

\* A generator on its own, and a caller about to call generate with one of
\* the requests and one of the options.
GenerateOptionsInit ==
  /\ gpc = "idle"
  /\ request \in RequestVariants
  /\ options \in OptionVariants
  /\ generated = NoGenerated
  /\ served = [r \in RequestIds |-> 0]
  /\ RetryIdle
  /\ BatchIdle
  /\ HashIdle
  /\ StandaloneIdle
  /\ CacheIdle

SpecGenerateOptions == GenerateOptionsInit /\ [][GenerateOptionsNext]_vars

C16_UnknownTemplateFailsEarly ==
  (TruthyStr(options.template) /\ options.template.val \notin TemplateIds) =>
    /\ gpc = "idle"
    /\ rpc = "idle"
    /\ effects.invocations = 0
    /\ generated.status \in {"none", "thrown"}
    /\ generated.status = "thrown" =>
         /\ ~generated.entered
         /\ generated.error = <<"Template not found: ", options.template.val>>
         /\ generated.apiParams = NoApiParams

\* generate has rejected a call that named a template outside the library.
C16_Witness ==
  /\ options.template = Some("no-such-template")
  /\ generated.status = "thrown"
  /\ generated.error = <<"Template not found: ", "no-such-template">>
  /\ gpc = "idle"

\* The structured composition: the text starts with the style-keyword phrase,
\* contains "logo of <company>, <prompt>" and "on white background", and ends
\* with the "--"-prefixed negative clauses.
Structured(text, req, opts) ==
  LET style == Or(opts.style, Or(req.style, Some("modern"))).val
      clause == negativeClause(getDefaultNegatives
                  \o (IF opts.negativePrompts.given THEN opts.negativePrompts.val ELSE <<>>))
  IN /\ Len(text) > Len(clause)
     /\ text[1] = getStyleKeywords(style)
     /\ includes(text, <<"logo of", " ", req.company, ", ", req.prompt>>)
     /\ includes(text, <<"on white background">>)
     /\ SubSeq(text, Len(text) - Len(clause) + 1, Len(text)) = clause

\* C17: for a call with no template id, the prompt generate submits to the
\* image API and the finalPrompt it records in the metadata are the
\* structured composition.
C17_StructuredFinalPrompt ==
  ~TruthyStr(options.template) =>
    /\ generated.status \in {"pending", "returned"} =>
         Structured(generated.apiParams.prompt, request, options)
    /\ generated.status = "returned" =>
         Structured(generated.metadata.finalPrompt, request, options)

\* C18: in every result of generate the recorded cost is the cost of the
\* recorded quality: 0.07 for standard, 0.19 for hd.
C18_CostMatchesQuality ==
  generated.status = "returned" =>
    /\ generated.metadata.quality = "standard" => generated.metadata.cost = 7
    /\ generated.metadata.quality = "hd" => generated.metadata.cost = 19

\* createPromptHash is called on its own.
InitHash ==
  HashInit /\ BatchIdle /\ RetryIdle /\ CacheIdle /\ GenerateIdle /\ StandaloneIdle

SpecHash == InitHash /\ [][HashNext]_vars

\* ------------------------------------------------------------------------
\* Properties of createPromptHash
\* ------------------------------------------------------------------------
\* The rearrangements of a list.
Rearrangements(l) ==
  { [i \in 1..Len(l) |-> l[f[i]]] :
      f \in { g \in [1..Len(l) -> 1..Len(l)] : \A i, j \in 1..Len(l) : g[i] = g[j] => i = j } }

\* C10: the key does not depend on the order of the colors: the key returned
\* for a colors list is the key of every rearrangement of that list, with the
\* same company, prompt and style.
C10_ColorOrderIndependent ==
  (hpc = "done" /\ hashArgs.colors.given) =>
    \A p \in Rearrangements(hashArgs.colors.val) :
      createPromptHash(hashArgs.company, hashArgs.prompt, hashArgs.style, Given(p)).key
        = hashKey

\* A key has been derived from three different colors passed out of order.
C10_Witness ==
  /\ hpc = "done"
  /\ hashArgs.colors = Given(<< <<"b">>, <<"a", "b">>, <<"a">> >>)
  /\ hashKey # <<>>
  /\ Cardinality(Rearrangements(hashArgs.colors.val)) = 6

\* C11: the key is sensitive to company, prompt and style: every other call
\* with the same colors whose company, prompt or style differs (a style that
\* is absent differs from every style value) gets a different key.
C11_KeySensitive ==
  hpc = "done" =>
    \A c \in CompanyNames, p \in PromptTexts, s \in Styles :
      <<c, p, s>> # <<hashArgs.company, hashArgs.prompt, hashArgs.style>> =>
        createPromptHash(c, p, s, hashArgs.colors).key # hashKey

\* The distinct values of a list.
Distinct(l) == { l[i] : i \in 1..Len(l) }

\* C12: the key depends on the colors only through the set of their distinct
\* values: every colors list with the same distinct values, whatever its
\* order and repetitions, gets the same key with the same company, prompt and
\* style.
C12_DistinctColorsOnly ==
  (hpc = "done" /\ hashArgs.colors.given) =>
    \A l \in Lists(ColorNames, MaxColors) :
      Distinct(l) = Distinct(hashArgs.colors.val) =>
        createPromptHash(hashArgs.company, hashArgs.prompt, hashArgs.style, Given(l)).key
          = hashKey

\* C30: createPromptHash has no effect on its arguments: after the call the
\* caller's colors array holds the same elements in the same order as
\* before.
C30_ColorsUntouched ==
  hpc = "done" => colorsArray = hashArgs.colors

\* ------------------------------------------------------------------------
\* Properties of CacheManager
\* ------------------------------------------------------------------------
\* C7: an entry that get returns has not expired at the time of the call
\* (now <= expiresAt), whether it came from the in-memory map or from a file.
C7_NoExpiredHit ==
  (last.op = "get" /\ last.result # Null) =>
    /\ clock <= last.result.expiresAt
    /\ last.source \in {"memory", "file"}

\* get has just returned, from its file, an entry at the last instant of its
\* life, after time has passed.
C7_Witness ==
  /\ last.op = "get"
  /\ last.source = "file"
  /\ last.result # Null
  /\ clock = last.result.expiresAt
  /\ clock > 1

\* C8: get(key) returns the value of the most recent set(key, v), with
\* hit = true, while less than ttl has passed since that set, whatever was set
\* before for the key and whatever was done to other keys; and it returns
\* null once more than ttl has passed since that set.
C8_MostRecentSet ==
  \A k \in Keys :
    (last.op = "get" /\ last.key = k /\ lastSet[k] # NoSet) =>
      /\ clock < lastSet[k].at + ttl =>
           /\ last.result # Null
           /\ last.result.val = lastSet[k].val
           /\ last.result.hit = TRUE
      /\ clock > lastSet[k].at + ttl => last.result = Null

\* get has just returned the second value set for key 1, some time after that
\* set, with the other key set in between or later and the file of key 1 not
\* holding that value.
C8_Witness ==
  /\ last.op = "get"
  /\ last.key = 1
  /\ lastSet[1].val = 2
  /\ lastSet[2] # NoSet
  /\ lastSet[2].at >= lastSet[1].at
  /\ clock > lastSet[1].at
  /\ last.result.val = 2
  /\ last.result.hit = TRUE
  /\ files[1].entry.val # 2

\* The files a pass removed because the scan marked them (expired, or not
\* readable or parsable), and those it removed to bring the size down.
RemovedAsExpired == expiredFiles(last.before, clock, last.io)

RemovedForSize == (Present(last.before) \ Present(files)) \ RemovedAsExpired

\* C13: after a cleanup pass that ran to completion, if the files exceeded
\* maxSize in total when the pass started, what remains is at most 80% of
\* maxSize in total; and every file removed for size was at least as old
\* (by modification time) as every file that remains.
C13_SizeReduced ==
  (last.op = "set" /\ last.pass = "done"
     /\ TotalSize(last.before, Present(last.before)) > maxSize) =>
    /\ 5 * TotalSize(files, Present(files)) <= 4 * maxSize
    /\ \A k \in RemovedForSize : \A j \in Present(files) :
         last.before[k].mtime <= files[j].mtime

\* A completed pass has removed the older of two unexpired files for size and
\* kept the newer one.
C13_Witness ==
  /\ last.op = "set"
  /\ last.pass = "done"
  /\ TotalSize(last.before, Present(last.before)) > maxSize
  /\ RemovedAsExpired = {}
  /\ RemovedForSize # {}
  /\ Present(files) # {}
  /\ \E k \in RemovedForSize : \E j \in Present(files) :
       last.before[k].mtime < files[j].mtime

\* C14: a cleanup pass deletes an unexpired, parsable file only when the files
\* left after the expired and unparsable ones were removed still exceed
\* maxSize in total.
C14_NoNeedlessEviction ==
  (last.op = "set" /\ last.pass # "skipped" /\ RemovedForSize # {}) =>
    LET left == Present(last.before) \ RemovedAsExpired IN
      TotalSize(last.before, left) > maxSize

\* C15: no file-system failure reaches the caller: get and set never throw;
\* a get whose read or parse failed returns null (it returns the in-memory
\* entry, unexpired, without touching the file); and after a set, whatever
\* failed in the write or in the cleanup pass, the in-memory map holds the
\* entry set.
C15_FailuresContained ==
  /\ ~last.threw
  /\ (last.op = "get" /\ last.io # NoFailure) => last.result = Null
  /\ (last.op = "get" /\ last.source = "memory") =>
       /\ last.io = NoFailure
       /\ last.result = [memoryCache[last.key] EXCEPT !.hit = TRUE]
       /\ clock <= last.result.expiresAt
  /\ last.op = "set" =>
       memoryCache[last.key] = MakeCached(lastSet[last.key].val, clock, ttl)

\* A set whose write failed and whose cleanup pass failed has returned, with
\* the entry in the in-memory map only.
C15_Witness ==
  /\ last.op = "set"
  /\ ~last.wrote
  /\ last.pass = "failed"
  /\ ~last.threw
  /\ memoryCache[last.key] # Null
  /\ files[last.key].entry # memoryCache[last.key]

\* C28: after every cleanup pass that was started, however its file-system
\* part went (no cache directory, an I/O error), the in-memory map holds no
\* expired entry.
C28_MemoryPurged ==
  (last.op = "set" /\ last.pass # "skipped") =>
    \A k \in Keys : memoryCache[k] # Null => ~isExpired(memoryCache[k], clock)

\* C29: an entry evicted for size is gone from the cache: when a cleanup pass
\* has deleted the file of a key because of the size bound, the get of that
\* key that follows returns absent.
C29_EvictedIsGone ==
  [][\A k \in Keys :
       (/\ last.op = "set"
        /\ last.pass = "done"
        /\ k \in RemovedForSize
        /\ last'.op = "get"
        /\ last'.key = k) =>
         last'.result = Null]_vars

\* ------------------------------------------------------------------------
\* Properties of RetryStrategy.execute
\* ------------------------------------------------------------------------
\* C4: when the operation fails k < maxAttempts times in a row with retryable
\* errors (rate limit or transient network) and then succeeds, execute returns
\* the value of that last invocation and the operation was invoked exactly
\* k + 1 times; when it fails with retryable errors every time, execute fails
\* only after exactly maxAttempts invocations.
C4_RetryCount ==
  /\ effects.invocations <= maxRetries
  /\ rpc = "returned" =>
       /\ effects.invocations = effects.failures + 1
       /\ outcome.value = effects.invocations
       /\ outcome.error = NoError
  /\ (rpc = "thrown" /\ effects.allRetryable) =>
       /\ effects.invocations = maxRetries
       /\ effects.failures = maxRetries

\* execute(op, 3) has returned the third invocation's value after a rate-limit
\* failure and a network failure.
C4_Witness ==
  /\ rpc = "returned"
  /\ maxRetries = 3
  /\ effects.failures = 2
  /\ effects.allRetryable
  /\ lastError.kind = "network"
  /\ outcome.value = 3

\* C5: an attempt that fails with a non-retryable error ends execute at once:
\* the error is thrown in the same step, with no warning and no sleep for it,
\* and the operation is never invoked again.
C5_NonRetryableImmediate ==
  [][/\ (lastError' # lastError /\ lastError'.kind = "other") =>
          /\ rpc' = "thrown"
          /\ outcome'.error = lastError'
          /\ effects'.warnings = effects.warnings
          /\ effects'.sleeps = effects.sleeps
          /\ effects'.invocations = effects.invocations
     /\ rpc = "thrown" => UNCHANGED retryVars]_vars

\* execute has thrown a non-retryable error on its second attempt, after one
\* retried failure.
C5_Witness ==
  /\ rpc = "thrown"
  /\ outcome.error.kind = "other"
  /\ outcome.error.message = <<"limit", "rate">>
  /\ effects.invocations = 2
  /\ effects.warnings = 1
  /\ maxRetries = 3

\* C6: whenever execute fails after at least one invocation, the error it
\* throws is the error object thrown by the last invocation of the operation.
C6_OriginalError ==
  (rpc = "thrown" /\ effects.invocations > 0) =>
    /\ outcome.error.id = effects.invocations
    /\ outcome.error = lastError
    /\ outcome.error.kind # "none"

\* execute has failed on exhausted retries whose last error was a rate limit,
\* after an earlier error of another class.
C6_Witness ==
  /\ rpc = "thrown"
  /\ effects.invocations = maxRetries
  /\ maxRetries >= 2
  /\ outcome.error.kind = "ratelimit"
  /\ outcome.error.id = maxRetries
  /\ attempt > maxRetries

\* ------------------------------------------------------------------------
\* Properties of processBatch
\* ------------------------------------------------------------------------
\* The ceiling the batch asks for: its concurrency, or 3 when none was supplied.
Ceiling == IF batch.concurrency = Undefined THEN 3 ELSE batch.concurrency

Entries(i) ==
  Cardinality({k \in 1..Len(results.successful) : results.successful[k].request = i})
  + Cardinality({k \in 1..Len(results.failed) : results.failed[k].request = i})

\* C2: a failed request never costs another request its place: a request is
\* listed (in successful or in failed) at most once and exactly when it has
\* finished, and when processBatch returns every input request is listed
\* exactly once, so |successful| + |failed| = number of requests.
C2_FailureIsolated ==
  /\ bpc # "start" =>
       \A i \in 1..N : Entries(i) = (IF tasks[i].st = "done" THEN 1 ELSE 0)
  /\ bpc = "returned" =>
       /\ \A i \in 1..N : Entries(i) = 1
       /\ Len(results.successful) + Len(results.failed) = N

\* processBatch has returned from a run in which a generation failed, a
\* download failed, and a request queued behind them still succeeded.
C2_Witness ==
  /\ bpc = "returned"
  /\ Len(results.failed) >= 2
  /\ Len(results.successful) >= 1
  /\ \E k \in 1..Len(results.failed) : results.failed[k].error = "generate"
  /\ \E k \in 1..Len(results.failed) : results.failed[k].error = "download"
  /\ results.failed[1].request < results.successful[Len(results.successful)].request

C21_StatsAgree ==
  bpc = "returned" =>
    /\ results.stats.total = Len(batch.requests)
    /\ results.stats.successful = Len(results.successful)
    /\ results.stats.failed = Len(results.failed)
    /\ results.stats.totalCost = SumCost(results.successful)

\* processBatch has returned from a run in which two requests of different
\* cost succeeded in the reverse of their input order and one failed.
C21_Witness ==
  /\ bpc = "returned"
  /\ Len(results.failed) >= 1
  /\ Len(results.successful) >= 2
  /\ results.successful[1].request > results.successful[2].request
  /\ results.successful[1].cost # results.successful[2].cost
  /\ results.stats.totalCost = results.successful[1].cost + results.successful[2].cost

\* C22: the stats processBatch returns carry the wall-clock duration of the
\* run: stats.duration is the time elapsed between the call, made at time 0,
\* and the return, so it is greater than zero whenever the clock advanced.
C22_DurationRecorded ==
  bpc = "returned" => results.stats.duration = clock

\* C23: a failure to write the sidecar metadata file does not fail the
\* generation: a request whose image was generated, fetched and written is
\* never listed as failed because saveMetadata failed, and download returns
\* the image path whenever the image file was written.
C23_MetadataFailureSwallowed ==
  /\ \A k \in 1..Len(results.failed) : results.failed[k].error # "metadata"
  /\ \A i \in 1..N, io \in DownloadOutcomes :
       (tasks[i].st = "downloading" /\ imageWritten(io)) =>
         /\ ~download(tasks[i].logoResult, io).threw
         /\ download(tasks[i].logoResult, io).value.localPath

\* C27: execute sleeps only between attempts: when it fails after exhausting
\* its attempts, every failure being a rate-limit or transient-network error,
\* the sleeps and the warnings each number one less than the invocations of
\* the operation; nothing is slept or warned after the last allowed attempt.
C27_SleepsBetweenAttempts ==
  (/\ rpc = "thrown"
   /\ effects.invocations >= 1
   /\ effects.invocations = maxRetries
   /\ effects.allRetryable) =>
    /\ effects.sleeps = effects.invocations - 1
    /\ effects.warnings = effects.invocations - 1

\* ------------------------------------------------------------------------
\* Properties of calculateBackoffDelay
\* ------------------------------------------------------------------------
\* C26: the delay for attempt a with jitter j is min(1000 * 2^(a-1) + j,
\* 30000): never above 30000, never below min(1000 * 2^(a-1), 30000), and
\* exactly 30000 from the sixth attempt on.
C26_BackoffDelay ==
  backoff.pc = "done" =>
    /\ backoff.delay = Min(1000 * 2 ^ (backoff.attempt - 1) + backoff.jitter, 30000)
    /\ backoff.delay <= 30000
    /\ backoff.delay >= Min(1000 * 2 ^ (backoff.attempt - 1), 30000)
    /\ backoff.attempt >= 6 => backoff.delay = 30000

\* The delay of a sixth or later attempt was computed with a jitter that is
\* not zero.
C26_Witness ==
  /\ backoff.pc = "done"
  /\ backoff.attempt >= 6
  /\ backoff.jitter > 0
  /\ backoff.delay = 30000

\* ------------------------------------------------------------------------
\* Properties of parseCSV
\* ------------------------------------------------------------------------
\* A cell after trimming and stripping a leading and a trailing double quote.
Clean(cell) == stripQuotes(trim(cell))

\* The cell of a data row in a column, empty when the row or the file has no
\* such column.
CellAt(row, col) == IF col >= 1 /\ col <= Len(row) THEN row[col] ELSE <<>>

\* A data row whose company and prompt are both non-empty once cleaned.
Complete(row) ==
  /\ Clean(CellAt(row, csv.headers.company)) # <<>>
  /\ Clean(CellAt(row, csv.headers.prompt)) # <<>>

CompleteRows == SelectSeq(csv.rows, Complete)

\* C25: parseCSV returns, in input row order, exactly the data rows whose
\* company and prompt (from the column named prompt or description) are both
\* non-empty after trimming and stripping a leading and trailing double quote;
\* a row without a prompt is dropped; a colors field a;b becomes the list
\* [a, b].
C25_RowsKept ==
  csv.pc = "parsed" =>
    /\ Len(csv.requests) = Len(CompleteRows)
    /\ \A k \in 1..Len(csv.requests) :
         k <= Len(CompleteRows) =>
           /\ csv.requests[k].company = Given(Clean(CellAt(CompleteRows[k], csv.headers.company)))
           /\ csv.requests[k].prompt = Given(Clean(CellAt(CompleteRows[k], csv.headers.prompt)))
           /\ Clean(CellAt(CompleteRows[k], csv.headers.colors)) = <<"a", ";", "b">> =>
                csv.requests[k].colors = Given(<< <<"a">>, <<"b">> >>)
           /\ Clean(CellAt(CompleteRows[k], csv.headers.colors)) = <<>> =>
                ~csv.requests[k].colors.given

\* A file of two data rows was parsed: the first, without a prompt, was
\* dropped; the second, quoted and with colors a;b, was kept.
C25_Witness ==
  /\ csv.pc = "parsed"
  /\ Len(csv.rows) = 2
  /\ csv.headers.prompt # 0
  /\ Clean(CellAt(csv.rows[1], csv.headers.company)) # <<>>
  /\ Clean(CellAt(csv.rows[1], csv.headers.prompt)) = <<>>
  /\ Len(csv.requests) = 1
  /\ csv.requests[1].company = Given(<<"b">>)
  /\ csv.requests[1].colors = Given(<< <<"a">>, <<"b">> >>)

\* ------------------------------------------------------------------------
\* Properties of the generate command
\* ------------------------------------------------------------------------
\* C24: in the generate command a download failure is fatal: when fetching
\* or writing the image of a generated logo has failed, the command reports
\* the failure and ends with a non-zero exit status.
C24_DownloadFailureFatal ==
  (/\ command.pc = "done"
   /\ \E k \in 1..Len(command.logged) : command.logged[k].error = "download") =>
    /\ command.reported
    /\ command.exit = 1

\* ------------------------------------------------------------------------
\* Properties of the iteration manifest
\* ------------------------------------------------------------------------
\* The file a call of createIterationManifest left: what the next call found,
\* or the manifest as it stands after the latest call.
LeftBy(i) == IF i < Len(created) THEN created[i + 1].before ELSE manifest

\* C19: createIterationManifest is read-modify-append. A call that completes
\* on a manifest that parses as an object with an iterations array leaves the
\* prior records, unchanged and in their order, followed by exactly one new
\* record; and calls made one after another on an absent file, all completing,
\* leave as many records as there were calls, in call order.
C19_ReadModifyAppend ==
  /\ \A i \in 1..Len(created) :
       (/\ created[i].before.kind = "object"
        /\ created[i].before.hasIterations
        /\ ~created[i].threw) =>
         /\ LeftBy(i).kind = "object"
         /\ LeftBy(i).hasIterations
         /\ LeftBy(i).iterations =
              Append(created[i].before.iterations, created[i].iterationData)
  /\ (/\ Len(created) > 0
      /\ created[1].before = NoManifest
      /\ \A i \in 1..Len(created) : ~created[i].threw) =>
       manifest.iterations = [i \in 1..Len(created) |-> created[i].iterationData]

\* Two calls, one after the other on an absent file, left two different
\* records.
C19_Witness ==
  /\ Len(created) = 2
  /\ created[1].before = NoManifest
  /\ ~created[1].threw
  /\ ~created[2].threw
  /\ created[2].before.iterations = <<created[1].iterationData>>
  /\ created[1].iterationData # created[2].iterationData
  /\ Len(manifest.iterations) = 2

\* C20: when processBatch has returned, a manifest record was appended if and
\* only if an iteration number was supplied, an output directory was supplied
\* and at least one request succeeded, whatever the iteration number; the
\* record's count and total cost are those of the successful results.
C20_ManifestWhenDue ==
  bpc = "returned" =>
    /\ Len(created) = 1 <=>
         /\ batch.iteration # Undefined
         /\ batch.outputDir # Undefined
         /\ Len(results.successful) > 0
    /\ Len(created) = 1 =>
         /\ ~created[1].threw
         /\ manifest.iterations =
              Append(created[1].before.iterations, created[1].iterationData)
         /\ created[1].iterationData.iteration = batch.iteration
         /\ created[1].iterationData.count = Len(results.successful)
         /\ created[1].iterationData.totalCost = SumCost(results.successful)
    /\ Len(created) = 0 => manifest \in {NoManifest, ManifestFile("object", TRUE, <<PriorRecord(1)>>)}

====
